---- MODULE Spec2Model ----
(***************************************************************************)
(* State-machine model of s3fs_download/core.py: an S3Downloader           *)
(* configuration, the DownloadedS3File handles opened from it, the local   *)
(* filesystem they cache into and the remote object they fetch.            *)
(*                                                                         *)
(* Every public method call is one atomic action (the code is              *)
(* single-threaded and blocking).  The local filesystem is modelled with   *)
(* inodes, so that two file objects opened on the same path share their    *)
(* content, and an unlinked file stays readable through an open object.    *)
(***************************************************************************)
EXTENDS Integers, Sequences, FiniteSets, TLC

(***************************************************************************)
(* Bounds of the model.                                                    *)
(***************************************************************************)
MaxLen == 2          \* longest object / file content, in bytes
MaxHandles == 2      \* handles opened from the one downloader
MaxCalls == 2        \* read-family calls made on one handle
NumInodes == 4       \* inode numbers available to the filesystem
MaxBuf == 3          \* largest buffer size of the download loop taken alone

(***************************************************************************)
(* Program constant (core.py line 8): 2**20 * 256.                         *)
(***************************************************************************)
DEFAULT_BUFFER_SIZE == 268435456

\* Bytes of the remote object; "NL" is the newline.
Bytes == {"a", "NL"}
\* What the environment writes when it overwrites a cache file (the tests
\* write 'bla'): it differs from every remote content.
AlteredContent == <<"b", "NL">>
Handles == 1..MaxHandles

RECURSIVE SeqsUpTo(_)
SeqsUpTo(n) ==
    IF n = 0 THEN {<<>>}
    ELSE LET S == SeqsUpTo(n - 1)
         IN  S \cup {Append(s, b) : s \in {t \in S : Len(t) = n - 1}, b \in Bytes}

Contents == SeqsUpTo(MaxLen)

\* Object keys, as sequences of path components: the key "d/f".
Keys == {<<"d", "f">>}
\* Values of the dir parameter of S3Downloader: '' and 'tmp'.
CacheDirs == {<<>>, <<"tmp">>}
Modes == {"rb", "wb"}
\* Values of the buf_size argument of DownloadedS3File: a small size, and
\* the default.
BufArgs == {1, DEFAULT_BUFFER_SIZE}
\* The length argument of read(): -1 (the default), one byte, or as many
\* bytes as the longest content has.
Lengths == {-1, 1, MaxLen}

\* "x = v; F(x)": the value v is computed once and named in F
Let(v, F(_)) == CHOOSE y \in {F(x) : x \in {v}} : TRUE

Min(a, b) == IF a < b THEN a ELSE b
Take(s, n) == SubSeq(s, 1, Min(n, Len(s)))
Drop(s, n) == SubSeq(s, Min(n, Len(s)) + 1, Len(s))
Front(s) == SubSeq(s, 1, Len(s) - 1)

(***************************************************************************)
(* Local filesystem.                                                       *)
(***************************************************************************)
\* os.path.join(dir, key)
JoinPath(dir, key) == dir \o key
Paths == {JoinPath(d, k) : d \in CacheDirs, k \in Keys}
\* The directory _get_tmp creates: join(dir, sep.join(key.split(sep)[0:-1]))
ParentDir(dir, key) == JoinPath(dir, Front(key))
\* os.makedirs(d, exist_ok=True): d and every missing ancestor
MakeDirs(dirset, d) == dirset \cup {SubSeq(d, 1, n) : n \in 0..Len(d)}

\* The path p is the directory d or lies below it
Under(d, p) == Take(p, Len(d)) = d

\* File objects: an inode number, the offset, and the closed flag.
NoneFile == [ino |-> 0, pos |-> 0, closed |-> FALSE]    \* Python None
ClosedFile == [ino |-> 0, pos |-> 0, closed |-> TRUE]   \* a closed file object
IsOpenFile(f) == f.ino # 0 /\ ~f.closed

\* The file object self._file refers to ("Tmp": the same object as self._tmp;
\* "Own": the object opened on a cache hit).
FileObj(h) == IF h.file = "Tmp" THEN h.tmp ELSE IF h.file = "Own" THEN h.own ELSE NoneFile

\* dl is the position of a download taken step by step (see LoopInit); the
\* calls of the public interface are atomic and leave it idle.
VARIABLES s3, remote, dirs, disk, inodes, handles, last, dl

vars == <<s3, remote, dirs, disk, inodes, handles, last, dl>>

\* The part of the state the methods work on, as one record.
World == [dirs |-> dirs, disk |-> disk, inodes |-> inodes, handles |-> handles]

UsedInodes(W) ==
    ({W.disk[p] : p \in Paths} \cup
     {W.handles[h].tmp.ino : h \in Handles} \cup
     {W.handles[h].own.ino : h \in Handles}) \ {0}

FreshInode(W) ==
    Let(UsedInodes(W), LAMBDA used :
    CHOOSE i \in 1..NumInodes :
        i \notin used /\ \A j \in 1..(i - 1) : j \in used)

\* Unreferenced inodes are reclaimed by the filesystem.
Sweep(W) ==
    Let(UsedInodes(W), LAMBDA used :
    [W EXCEPT !.inodes = [i \in 1..NumInodes |->
                            IF i \in used THEN @[i] ELSE <<>>]])

\* os.path.isfile(path)
IsFile(W, path) == path \in Paths /\ W.disk[path] # 0

\* The most recent call: the handle it was made on (0: none, the environment
\* acted last), the method, its argument (for open: the buf_size argument,
\* and the mode) and its outcome.
NoCall == [h |-> 0, op |-> "none", arg |-> 0, mode |-> "rb", res |-> "ok",
           data |-> <<>>, lines |-> <<>>, fetch |-> FALSE, trunc |-> FALSE,
           amt |-> 0, raised |-> FALSE]

NewHandle ==
    [st |-> "unopened", key |-> <<>>, closed |-> FALSE, file |-> "None",
     tmp |-> NoneFile, own |-> NoneFile, downloaded |-> FALSE, buf_size |-> 0,
     nreads |-> 0, interfered |-> FALSE, found |-> "none"]

\* No download is being followed step by step
NoLoop == [pc |-> "idle", fault |-> "none", obj |-> <<>>, data |-> <<>>,
           reads |-> 0, chunks |-> <<>>]

Init ==
    /\ s3 \in [dir : CacheDirs, lazy : BOOLEAN, use_cache : BOOLEAN]
    /\ remote \in Contents
    /\ dirs = {<<>>}
    /\ disk = [p \in Paths |-> 0]
    /\ inodes = [i \in 1..NumInodes |-> <<>>]
    /\ handles = [h \in Handles |-> NewHandle]
    /\ last = NoCall
    /\ dl = NoLoop

(***************************************************************************)
(* The remote store: get_object(...)['Body'] is a byte stream over the     *)
(* object's content; read(amt) returns at most amt bytes, and an empty     *)
(* result at the end of the stream.  A fault makes the store raise         *)
(* ClientError, in get_object or in the first or second read of the        *)
(* stream.                                                                 *)
(***************************************************************************)
Faults == {"none", "get_object", "read_1", "read_2"}
NoFault == "none"

\* The number of stream reads that succeed under a fault (-1: all of them)
ReadBudget(fault) ==
    CASE fault = "read_1" -> 0
      [] fault = "read_2" -> 1
      [] OTHER -> -1

\* Variant of LoopContinues: the loop goes on after a full chunk only
LoopContinuesWhenFull(data, amt) == Len(data) = amt

\* "while data": the loop of _download goes on until a read returns nothing
LoopContinues(data, amt) == data # <<>>

\* The chunks the loop of _download writes, and whether it ran to the end;
\* budget is the number of stream reads that succeed (-1: all of them).
RECURSIVE StreamChunks(_, _, _)
StreamChunks(rest, amt, budget) ==
    IF budget = 0 THEN [chunks |-> <<>>, ok |-> FALSE]
    ELSE Let(Take(rest, amt), LAMBDA data :
         IF ~LoopContinues(data, amt) THEN [chunks |-> <<>>, ok |-> TRUE]
         ELSE Let(StreamChunks(Drop(rest, amt), amt,
                               IF budget < 0 THEN budget ELSE budget - 1), LAMBDA r :
              [chunks |-> <<data>> \o r.chunks, ok |-> r.ok]))

\* f.write(data) at the object's offset
FileWrite(W, f, data) ==
    [W |-> [W EXCEPT !.inodes[f.ino] =
                Take(@, f.pos) \o data \o Drop(@, f.pos + Len(data))],
     f |-> [f EXCEPT !.pos = @ + Len(data)]]

RECURSIVE WriteChunks(_, _, _)
WriteChunks(W, f, chunks) ==
    IF chunks = <<>> THEN [W |-> W, f |-> f]
    ELSE Let(FileWrite(W, f, Head(chunks)), LAMBDA r :
         WriteChunks(r.W, r.f, Tail(chunks)))

\* Variant of OpenTruncate: opens the file for appending ('ab+')
OpenAppend(W, path) ==
    Let(IF W.disk[path] # 0 THEN W.disk[path] ELSE FreshInode(W), LAMBDA i :
    Let(IF W.disk[path] # 0 THEN W.inodes[i] ELSE <<>>, LAMBDA c :
    [W |-> [W EXCEPT !.disk[path] = i, !.inodes[i] = c],
     f |-> [ino |-> i, pos |-> Len(c), closed |-> FALSE]]))

\* Variant of OpenTruncate: opens the file without truncating it ('rb+')
OpenKeepContent(W, path) ==
    Let(IF W.disk[path] # 0 THEN W.disk[path] ELSE FreshInode(W), LAMBDA i :
    [W |-> [W EXCEPT !.disk[path] = i,
                     !.inodes[i] = IF W.disk[path] # 0 THEN @ ELSE <<>>],
     f |-> [ino |-> i, pos |-> 0, closed |-> FALSE]])

\* open(path, mode='wb+'): creates the file, or truncates the one there
OpenTruncate(W, path) ==
    Let(IF W.disk[path] # 0 THEN W.disk[path] ELSE FreshInode(W), LAMBDA i :
    [W |-> [W EXCEPT !.disk[path] = i, !.inodes[i] = <<>>],
     f |-> [ino |-> i, pos |-> 0, closed |-> FALSE]])

\* tempfile.TemporaryFile(mode='wb+'): a file with no path
TemporaryFile(W) ==
    Let(FreshInode(W), LAMBDA i :
    [W |-> [W EXCEPT !.inodes[i] = <<>>],
     f |-> [ino |-> i, pos |-> 0, closed |-> FALSE]])

\* Variant of GetTmp: the file object of an earlier attempt is kept, with
\* its content and its offset
GetTmpReuse(W, h) ==
    IF W.handles[h].tmp # NoneFile
    THEN [W |-> W, f |-> W.handles[h].tmp]
    ELSE IF s3.dir # <<>>
    THEN OpenTruncate([W EXCEPT !.dirs = MakeDirs(@, ParentDir(s3.dir, W.handles[h].key))],
                      JoinPath(s3.dir, W.handles[h].key))
    ELSE TemporaryFile(W)

\* DownloadedS3File._get_tmp
GetTmp(W, h) ==
    IF s3.dir # <<>>
    THEN Let(ParentDir(s3.dir, W.handles[h].key), LAMBDA d :
         Let(IF d \notin W.dirs THEN [W EXCEPT !.dirs = MakeDirs(@, d)] ELSE W,
             LAMBDA W1 :
         OpenTruncate(W1, JoinPath(s3.dir, W.handles[h].key))))
    ELSE TemporaryFile(W)

\* Variant of ExceptClientError: no except clause, the error propagates
ExceptNothing(exc) == exc

\* "except ClientError: raise IOError(...)" of _download
ExceptClientError(exc) == IF exc = "ClientError" THEN "IOError_download" ELSE exc

\* Variant of Download: the store is asked for the object before the local
\* file is made
DownloadFetchFirst(W, h, fault) ==
    IF fault = "get_object"
    THEN [W |-> W, exc |-> ExceptClientError("ClientError"), fetch |-> TRUE,
          trunc |-> FALSE, amt |-> 0, raised |-> TRUE]
    ELSE Let(GetTmp(W, h), LAMBDA g :
         Let([g.W EXCEPT !.handles[h].tmp = g.f], LAMBDA W1 :
         Let(StreamChunks(remote, W1.handles[h].buf_size, ReadBudget(fault)),
             LAMBDA st :
         Let(WriteChunks(W1, g.f, st.chunks), LAMBDA w :
         [W |-> [w.W EXCEPT !.handles[h].tmp = w.f],
          exc |-> IF st.ok THEN "none" ELSE ExceptClientError("ClientError"),
          fetch |-> TRUE, trunc |-> s3.dir # <<>>,
          amt |-> W1.handles[h].buf_size, raised |-> ~st.ok]))))

\* DownloadedS3File._download; exc is the exception raised, if any, amt the
\* size asked of the stream in each read and raised whether the store
\* raised ClientError
Download(W, h, fault) ==
    Let(GetTmp(W, h), LAMBDA g :
    Let([g.W EXCEPT !.handles[h].tmp = g.f], LAMBDA W1 :
    IF fault = "get_object"
    THEN [W |-> W1, exc |-> ExceptClientError("ClientError"), fetch |-> TRUE,
          trunc |-> s3.dir # <<>>, amt |-> 0, raised |-> TRUE]
    ELSE Let(StreamChunks(remote, W1.handles[h].buf_size, ReadBudget(fault)),
             LAMBDA st :
         Let(WriteChunks(W1, g.f, st.chunks), LAMBDA w :
         [W |-> [w.W EXCEPT !.handles[h].tmp = w.f],
          exc |-> IF st.ok THEN "none" ELSE ExceptClientError("ClientError"),
          fetch |-> TRUE, trunc |-> s3.dir # <<>>,
          amt |-> W1.handles[h].buf_size, raised |-> ~st.ok]))))

\* Variant of Rewind: the offset is left at the end of the written data
RewindForgotten(f) == f

\* self._tmp.seek(0)
Rewind(f) == [f EXCEPT !.pos = 0]

\* Variant of CacheHitKey: the test is always refused, as with force_refresh
CacheHitRefused(W, key) == FALSE

\* Variant of CacheHitKey: the use_cache flag is not consulted
CacheHitUnflagged(W, key) == IsFile(W, JoinPath(s3.dir, key))

\* The cache-hit test of _get_file (force_refresh is never passed as True)
CacheHitKey(W, key) == s3.use_cache /\ IsFile(W, JoinPath(s3.dir, key))
CacheHit(W, h) == CacheHitKey(W, W.handles[h].key)

\* History: what a resolution found at the cache path, "absent" for no
\* file, "fresh" for the remote content and "stale" for any other content.
Found(W, key) ==
    IF ~IsFile(W, JoinPath(s3.dir, key)) THEN "absent"
    ELSE IF W.inodes[W.disk[JoinPath(s3.dir, key)]] = remote THEN "fresh"
    ELSE "stale"

\* DownloadedS3File._get_file; ret is the file object returned
GetFileOf(W, h, fault) ==
    IF CacheHit(W, h)
    THEN [W |-> [W EXCEPT !.handles[h].own =
                     [ino |-> W.disk[JoinPath(s3.dir, W.handles[h].key)],
                      pos |-> 0, closed |-> FALSE]],
          ret |-> "Own", exc |-> "none", fetch |-> FALSE, trunc |-> FALSE,
          amt |-> 0, raised |-> FALSE]
    ELSE Let(IF ~W.handles[h].downloaded
             THEN Download(W, h, fault)
             ELSE [W |-> W, exc |-> "none", fetch |-> FALSE, trunc |-> FALSE,
                   amt |-> 0, raised |-> FALSE],
             LAMBDA d :
         IF d.exc # "none"
         THEN [W |-> d.W, ret |-> "None", exc |-> d.exc,
               fetch |-> d.fetch, trunc |-> d.trunc,
               amt |-> d.amt, raised |-> d.raised]
         ELSE IF d.W.handles[h].tmp = NoneFile
         THEN [W |-> [d.W EXCEPT !.handles[h].downloaded = TRUE],
               ret |-> "None", exc |-> "AttributeError",
               fetch |-> d.fetch, trunc |-> d.trunc,
               amt |-> d.amt, raised |-> d.raised]
         ELSE [W |-> [d.W EXCEPT !.handles[h].downloaded = TRUE,
                                 !.handles[h].tmp = Rewind(@)],
               ret |-> "Tmp", exc |-> "none",
               fetch |-> d.fetch, trunc |-> d.trunc,
               amt |-> d.amt, raised |-> d.raised])

\* _get_file, with the history of what it found at the cache path
GetFile(W, h, fault) ==
    Let(GetFileOf(W, h, fault), LAMBDA r :
    [r EXCEPT !.W.handles[h].found = Found(W, W.handles[h].key)])

(***************************************************************************)
(* The methods of DownloadedS3File, as functions of the world W and the    *)
(* handle h.  Each returns the new world and the outcome of the call:      *)
(* res is "ok" or the exception raised, data the bytes returned, lines the *)
(* list returned by readlines, fetch whether the remote store was          *)
(* contacted, trunc whether a file with a path was created or truncated,   *)
(* amt the size asked of the remote stream in each read (0: no read) and   *)
(* raised whether the remote store raised ClientError.                     *)
(***************************************************************************)
Outcome(W, res, data, lines, fetch, trunc, amt, raised) ==
    [W |-> W, res |-> res, data |-> data, lines |-> lines,
     fetch |-> fetch, trunc |-> trunc, amt |-> amt, raised |-> raised]

\* f.close() on the object self._file refers to
CloseFileObj(hr) ==
    IF hr.file = "Tmp" THEN [hr EXCEPT !.tmp = ClosedFile]
    ELSE IF hr.file = "Own" THEN [hr EXCEPT !.own = ClosedFile]
    ELSE hr

\* Moves the offset of the object self._file refers to
SeekFileObj(hr, pos) ==
    IF hr.file = "Tmp" THEN [hr EXCEPT !.tmp.pos = pos]
    ELSE IF hr.file = "Own" THEN [hr EXCEPT !.own.pos = pos]
    ELSE hr

\* f.readline(): up to and including the next newline, or the remainder
RECURSIVE FirstLine(_)
FirstLine(s) ==
    IF s = <<>> THEN <<>>
    ELSE IF Head(s) = "NL" THEN <<"NL">>
    ELSE <<Head(s)>> \o FirstLine(Tail(s))

\* f.readlines(): the remaining lines
RECURSIVE Lines(_)
Lines(s) ==
    IF s = <<>> THEN <<>>
    ELSE Let(FirstLine(s), LAMBDA l : <<l>> \o Lines(Drop(s, Len(l))))

\* f.read() / f.read(length)
FileRead(content, pos, length) ==
    IF length = -1 THEN Drop(content, pos) ELSE Take(Drop(content, pos), length)

\* Variant of Resolve: nothing is remembered, every call downloads the
\* object again and reads the new file
ResolveEveryCall(W, h, fault) ==
    Let(Download(W, h, fault), LAMBDA d :
    IF d.exc # "none"
    THEN [W |-> d.W, ret |-> "None", exc |-> d.exc, fetch |-> d.fetch,
          trunc |-> d.trunc, amt |-> d.amt, raised |-> d.raised]
    ELSE [W |-> [d.W EXCEPT !.handles[h].tmp = Rewind(@),
                            !.handles[h].file = "Tmp",
                            !.handles[h].downloaded = TRUE],
          ret |-> "Tmp", exc |-> "none", fetch |-> d.fetch,
          trunc |-> d.trunc, amt |-> d.amt, raised |-> d.raised])

\* "if not self._file: self._file = self._get_file()" of read and readline
Resolve(W, h, fault) ==
    IF W.handles[h].file = "None"
    THEN Let(GetFile(W, h, fault), LAMBDA r :
         IF r.exc = "none" THEN [r EXCEPT !.W.handles[h].file = r.ret] ELSE r)
    ELSE [W |-> W, ret |-> W.handles[h].file, exc |-> "none",
          fetch |-> FALSE, trunc |-> FALSE, amt |-> 0, raised |-> FALSE]

\* What "with self._file as f" does when its body is left
WithExit(hr) == CloseFileObj(hr)

\* DownloadedS3File.read
DoRead(W, h, length, fault) ==
    Let(Resolve(W, h, fault), LAMBDA r :
    Let(r.W.handles[h], LAMBDA hr :
    Let(FileObj(hr), LAMBDA f :
    IF r.exc # "none" THEN Outcome(r.W, r.exc, <<>>, <<>>, r.fetch, r.trunc, r.amt, r.raised)
    ELSE IF hr.file = "Method"
    THEN Outcome(r.W, "AttributeError", <<>>, <<>>, r.fetch, r.trunc, r.amt, r.raised)
    ELSE IF f.closed
    THEN Outcome(r.W, "IOError_closed", <<>>, <<>>, r.fetch, r.trunc, r.amt, r.raised)
    ELSE Let(FileRead(r.W.inodes[f.ino], f.pos, length), LAMBDA data :
         Outcome([r.W EXCEPT !.handles[h] =
                      WithExit(SeekFileObj(hr, f.pos + Len(data)))],
                 "ok", data, <<>>, r.fetch, r.trunc, r.amt, r.raised)))))

\* DownloadedS3File.readline
DoReadline(W, h, fault) ==
    Let(Resolve(W, h, fault), LAMBDA r :
    Let(r.W.handles[h], LAMBDA hr :
    Let(FileObj(hr), LAMBDA f :
    IF r.exc # "none" THEN Outcome(r.W, r.exc, <<>>, <<>>, r.fetch, r.trunc, r.amt, r.raised)
    ELSE IF hr.file = "Method"
    THEN Outcome(r.W, "AttributeError", <<>>, <<>>, r.fetch, r.trunc, r.amt, r.raised)
    ELSE IF f.closed
    THEN Outcome(r.W, "IOError_closed", <<>>, <<>>, r.fetch, r.trunc, r.amt, r.raised)
    ELSE Let(FirstLine(Drop(r.W.inodes[f.ino], f.pos)), LAMBDA data :
         Outcome([r.W EXCEPT !.handles[h] = SeekFileObj(hr, f.pos + Len(data))],
                 "ok", data, <<>>, r.fetch, r.trunc, r.amt, r.raised)))))

\* "if not self._file: self._file = self._get_file" of readlines: the bound
\* method is stored, not called
ResolveLines(W, h) ==
    IF W.handles[h].file = "None"
    THEN [W EXCEPT !.handles[h].file = "Method"]
    ELSE W

\* DownloadedS3File.readlines
DoReadlines(W, h) ==
    Let(ResolveLines(W, h), LAMBDA W1 :
    Let(W1.handles[h], LAMBDA hr :
    Let(FileObj(hr), LAMBDA f :
    IF hr.file = "Method"
    THEN Outcome(W1, "AttributeError", <<>>, <<>>, FALSE, FALSE, 0, FALSE)
    ELSE IF f.closed
    THEN Outcome(W1, "IOError_closed", <<>>, <<>>, FALSE, FALSE, 0, FALSE)
    ELSE Let(W1.inodes[f.ino], LAMBDA c :
         Outcome([W1 EXCEPT !.handles[h] = SeekFileObj(hr, Len(c))],
                 "ok", <<>>, Lines(Drop(c, f.pos)), FALSE, FALSE, 0, FALSE)))))

\* What the call _read_only() in write and flush raises: the name is bound
\* in the class body only, so the lookup from a method fails
ReadOnlyCall == "NameError"

\* DownloadedS3File.write and DownloadedS3File.flush
DoWrite(W, h) == Outcome(W, ReadOnlyCall, <<>>, <<>>, FALSE, FALSE, 0, FALSE)

\* DownloadedS3File.close
DoClose(W, h) ==
    IF W.handles[h].file = "Method"
    THEN Outcome(W, "AttributeError", <<>>, <<>>, FALSE, FALSE, 0, FALSE)
    ELSE Outcome([W EXCEPT !.handles[h] = [CloseFileObj(@) EXCEPT !.closed = TRUE]],
                 "ok", <<>>, <<>>, FALSE, FALSE, 0, FALSE)

\* Variant of ModeAccepted: the mode is not checked
ModeUnchecked(mode) == TRUE

\* "if mode != 'rb': raise NotImplementedError" of __init__
ModeAccepted(mode) == mode = "rb"

\* "self.buf_size = DEFAULT_BUFFER_SIZE" of __init__: the value the handle
\* keeps, given the buf_size argument
InitBufSize(buf_size) == DEFAULT_BUFFER_SIZE

\* DownloadedS3File.__init__ (S3Downloader.open passes the mode 'rb' and no
\* buf_size)
DoInit(W, h, key, mode, buf_size, fault) ==
    IF ~ModeAccepted(mode)
    THEN Outcome([W EXCEPT !.handles[h].st = "failed", !.handles[h].key = key],
                 "NotImplementedError", <<>>, <<>>, FALSE, FALSE, 0, FALSE)
    ELSE Let([W EXCEPT !.handles[h] =
                  [NewHandle EXCEPT !.st = "open", !.key = key,
                                    !.buf_size = InitBufSize(buf_size)]], LAMBDA W1 :
         IF s3.lazy THEN Outcome(W1, "ok", <<>>, <<>>, FALSE, FALSE, 0, FALSE)
         ELSE Let(GetFile(W1, h, fault), LAMBDA r :
              IF r.exc # "none"
              THEN Outcome([r.W EXCEPT !.handles[h] =
                                [NewHandle EXCEPT !.st = "failed", !.key = key]],
                           r.exc, <<>>, <<>>, r.fetch, r.trunc, r.amt, r.raised)
              ELSE Outcome([r.W EXCEPT !.handles[h].file = r.ret,
                                       !.handles[h].downloaded = TRUE],
                           "ok", <<>>, <<>>, r.fetch, r.trunc, r.amt, r.raised)))

(***************************************************************************)
(* Bookkeeping of a step: the call is recorded in the variable last,       *)
(* a handle whose open file another party changed or unlinked is marked    *)
(* interfered, and unreferenced inodes are reclaimed.                      *)
(***************************************************************************)
Touched(Old, New, g) ==
    Let(FileObj(Old.handles[g]), LAMBDA f :
    /\ IsOpenFile(f)
    /\ \/ New.inodes[f.ino] # Old.inodes[f.ino]
       \/ \E p \in Paths : Old.disk[p] = f.ino /\ New.disk[p] # f.ino)

Mark(Old, New, a) ==
    [New EXCEPT !.handles = [g \in Handles |->
        IF g # a /\ Touched(Old, New, g)
        THEN [@[g] EXCEPT !.interfered = TRUE]
        ELSE @[g]]]

Commit(W, call) ==
    \E W0 \in {World} : \E W1 \in {Mark(W0, W, call.h)} : \E W2 \in {Sweep(W1)} :
        /\ dirs' = W2.dirs
        /\ disk' = W2.disk
        /\ inodes' = W2.inodes
        /\ handles' = W2.handles
        /\ last' = call
        /\ UNCHANGED <<s3, remote, dl>>

\* The world after a call, with the handle's count of read-family calls
Counted(o, h, isRead) ==
    [o.W EXCEPT !.handles[h].nreads = IF isRead THEN @ + 1 ELSE @]

Call(o, h, op, arg) ==
    [h |-> h, op |-> op, arg |-> arg, mode |-> "rb", res |-> o.res,
     data |-> o.data, lines |-> o.lines, fetch |-> o.fetch, trunc |-> o.trunc,
     amt |-> o.amt, raised |-> o.raised]

Step(o, h, op, arg, isRead) ==
    \E W \in {Counted(o, h, isRead)} : Commit(W, Call(o, h, op, arg))

\* The faults that matter to a call: those of the download it would make
FaultsAt(willResolve, h) ==
    IF willResolve /\ ~CacheHit(World, h) /\ ~handles[h].downloaded
    THEN Faults ELSE {NoFault}

IsOpen(h) == handles[h].st = "open"
MayRead(h) == IsOpen(h) /\ handles[h].nreads < MaxCalls

(***************************************************************************)
(* Actions: one per call of the public interface, and the environment's.   *)
(***************************************************************************)
\* The caller holds one handle at a time: the variable that held the
\* previous handle is bound to the new one, and the previous handle is
\* dropped (the garbage collector closes its file objects).
Dropped == [NewHandle EXCEPT !.st = "dropped"]

DropEarlier(W, h) ==
    [W EXCEPT !.handles = [g \in Handles |-> IF g < h THEN Dropped ELSE @[g]]]

\* The call record of DownloadedS3File(s3, key, mode, buf_size)
OpenCall(o, h, mode, buf_size) == [Call(o, h, "open", buf_size) EXCEPT !.mode = mode]

\* DownloadedS3File(s3, key, mode): buf_size is left to its default
Open(h, key, mode, fault) ==
    /\ handles[h].st = "unopened"
    /\ \A g \in Handles : g < h => handles[g].st # "unopened"
    /\ fault \in (IF mode = "rb" /\ ~s3.lazy /\ ~CacheHitKey(World, key)
                  THEN Faults ELSE {NoFault})
    /\ \E W \in {World} :
       \E o \in {DoInit(W, h, key, mode, DEFAULT_BUFFER_SIZE, fault)} :
           Commit(DropEarlier(o.W, h), OpenCall(o, h, mode, DEFAULT_BUFFER_SIZE))

Read(h, length, fault) ==
    /\ MayRead(h)
    /\ fault \in FaultsAt(handles[h].file = "None", h)
    /\ \E W \in {World} : \E o \in {DoRead(W, h, length, fault)} :
           Step(o, h, "read", length, TRUE)

Readline(h, fault) ==
    /\ MayRead(h)
    /\ fault \in FaultsAt(handles[h].file = "None", h)
    /\ \E W \in {World} : \E o \in {DoReadline(W, h, fault)} :
           Step(o, h, "readline", 0, TRUE)

Readlines(h) ==
    /\ MayRead(h)
    /\ \E W \in {World} : \E o \in {DoReadlines(W, h)} :
           Step(o, h, "readlines", 0, TRUE)

Write(h) ==
    /\ IsOpen(h)
    /\ \E W \in {World} : \E o \in {DoWrite(W, h)} :
           Step(o, h, "write", 0, FALSE)

Flush(h) ==
    /\ IsOpen(h)
    /\ \E W \in {World} : \E o \in {DoWrite(W, h)} :
           Step(o, h, "flush", 0, FALSE)

Close(h) ==
    /\ IsOpen(h)
    /\ \E W \in {World} : \E o \in {DoClose(W, h)} :
           Step(o, h, "close", 0, FALSE)

\* The environment overwrites the file at <dir>/<key>, as the tests do
\* between two opens: open(path, 'w').write(content)
Alter(key, content) ==
    /\ ~(IsFile(World, JoinPath(s3.dir, key)) /\
         inodes[disk[JoinPath(s3.dir, key)]] = content)
    /\ \E W \in {[World EXCEPT !.dirs = MakeDirs(@, ParentDir(s3.dir, key))]} :
       \E o \in {OpenTruncate(W, JoinPath(s3.dir, key))} :
       \E r \in {FileWrite(o.W, o.f, content)} :
           Commit(r.W, NoCall)

\* The environment removes the cache directory: shutil.rmtree(dir)
RmTree ==
    /\ s3.dir # <<>>
    /\ s3.dir \in dirs
    /\ \E W \in {[World EXCEPT
                    !.dirs = {d \in @ : ~Under(s3.dir, d)},
                    !.disk = [p \in Paths |->
                                IF Under(s3.dir, p) THEN 0 ELSE @[p]]]} :
           Commit(W, NoCall)

Next ==
    \/ \E h \in Handles, k \in Keys, m \in Modes, x \in Faults : Open(h, k, m, x)
    \/ \E h \in Handles, n \in Lengths, x \in Faults : Read(h, n, x)
    \/ \E h \in Handles, x \in Faults : Readline(h, x)
    \/ \E h \in Handles : Readlines(h)
    \/ \E h \in Handles : Write(h)
    \/ \E h \in Handles : Flush(h)
    \/ \E h \in Handles : Close(h)
    \/ \E k \in Keys : Alter(k, AlteredContent)
    \/ RmTree

Spec == Init /\ [][Next]_vars

TypeOK ==
    /\ s3 \in [dir : CacheDirs, lazy : BOOLEAN, use_cache : BOOLEAN]
    /\ remote \in Contents
    /\ \A p \in Paths : disk[p] \in 0..NumInodes
    /\ \A i \in 1..NumInodes : inodes[i] \in Contents \cup {AlteredContent}
    /\ \A h \in Handles : handles[h].file \in {"None", "Tmp", "Own", "Method"}
    /\ last.h \in 0..MaxHandles
    /\ dl = NoLoop

(***************************************************************************)
(* Two handles of one downloader on the same key, held at the same time,   *)
(* with a cache directory and without cache reuse: the calls of the two    *)
(* handles interleave, each call atomic, and nothing else touches the      *)
(* cache directory.                                                        *)
(***************************************************************************)
PairInit ==
    /\ s3 \in [dir : CacheDirs \ {<<>>}, lazy : BOOLEAN, use_cache : {FALSE}]
    /\ remote \in Contents
    /\ dirs = {<<>>}
    /\ disk = [p \in Paths |-> 0]
    /\ inodes = [i \in 1..NumInodes |-> <<>>]
    /\ handles = [h \in Handles |-> NewHandle]
    /\ last = NoCall
    /\ dl = NoLoop

\* The two handles: the first two that are made
PairHandles == {h \in Handles : Cardinality({g \in Handles : g < h}) <= 1}

\* DownloadedS3File(s3, key, buf_size=...): the handles made earlier are
\* kept
PairOpen(h, key, buf_size, fault) ==
    /\ handles[h].st = "unopened"
    /\ \A g \in Handles : g < h => handles[g].st # "unopened"
    /\ fault \in (IF ~s3.lazy THEN Faults ELSE {NoFault})
    /\ \E W \in {World} :
       \E o \in {DoInit(W, h, key, "rb", buf_size, fault)} :
           Commit(o.W, OpenCall(o, h, "rb", buf_size))

PairNext ==
    \/ \E h \in PairHandles, k \in Keys, b \in BufArgs, x \in Faults :
           PairOpen(h, k, b, x)
    \/ \E h \in PairHandles, n \in Lengths, x \in Faults : Read(h, n, x)
    \/ \E h \in PairHandles : Close(h)

SpecPair == PairInit /\ [][PairNext]_vars

(***************************************************************************)
(* The download of one handle, statement by statement: _download with the  *)
(* buffer size and the remote content as inputs.  The handle is a lazy one *)
(* whose buf_size attribute holds the buffer size.                         *)
(***************************************************************************)
LoopBufs == 1..MaxBuf
LoopHandle == CHOOSE h \in Handles : \A g \in Handles : h <= g

LoopInit ==
    /\ s3 \in [dir : CacheDirs, lazy : {TRUE}, use_cache : {FALSE}]
    /\ remote \in Contents
    /\ dirs = {<<>>}
    /\ disk = [p \in Paths |-> 0]
    /\ inodes = [i \in 1..NumInodes |-> <<>>]
    /\ \E k \in Keys, b \in LoopBufs :
         handles = [h \in Handles |->
                      IF h = LoopHandle
                      THEN [NewHandle EXCEPT !.st = "open", !.key = k, !.buf_size = b]
                      ELSE NewHandle]
    /\ last = NoCall
    /\ \E x \in Faults : dl = [NoLoop EXCEPT !.pc = "get_tmp", !.fault = x]

LoopCommit(W, d) ==
    /\ dirs' = W.dirs
    /\ disk' = W.disk
    /\ inodes' = W.inodes
    /\ handles' = W.handles
    /\ dl' = d
    /\ UNCHANGED <<s3, remote, last>>

\* self._tmp = self._get_tmp()
LoopGetTmp(h) ==
    /\ dl.pc = "get_tmp"
    /\ \E g \in {GetTmp(World, h)} :
           LoopCommit([g.W EXCEPT !.handles[h].tmp = g.f],
                      [dl EXCEPT !.pc = "get_object"])

\* obj = self.s3.s3.get_object(Bucket=..., Key=...)['Body']
LoopGetObject(h) ==
    /\ dl.pc = "get_object"
    /\ IF dl.fault = "get_object"
       THEN LoopCommit(World, [dl EXCEPT !.pc = ExceptClientError("ClientError")])
       ELSE LoopCommit(World, [dl EXCEPT !.pc = "read", !.obj = remote])

\* data = obj.read(amt=self.buf_size)
LoopRead(h) ==
    /\ dl.pc = "read"
    /\ IF dl.reads = ReadBudget(dl.fault)
       THEN LoopCommit(World, [dl EXCEPT !.pc = ExceptClientError("ClientError")])
       ELSE LoopCommit(World, [dl EXCEPT !.pc = "while",
                                         !.data = Take(dl.obj, handles[h].buf_size),
                                         !.obj = Drop(dl.obj, handles[h].buf_size),
                                         !.reads = @ + 1])

\* while data: self._tmp.write(data)
LoopWrite(h) ==
    /\ dl.pc = "while"
    /\ IF LoopContinues(dl.data, handles[h].buf_size)
       THEN \E w \in {FileWrite(World, handles[h].tmp, dl.data)} :
                LoopCommit([w.W EXCEPT !.handles[h].tmp = w.f],
                           [dl EXCEPT !.pc = "read",
                                      !.chunks = Append(@, dl.data)])
       ELSE LoopCommit(World, [dl EXCEPT !.pc = "done"])

LoopNext ==
    \/ LoopGetTmp(LoopHandle)
    \/ LoopGetObject(LoopHandle)
    \/ LoopRead(LoopHandle)
    \/ LoopWrite(LoopHandle)

SpecLoop == LoopInit /\ [][LoopNext]_vars

(***************************************************************************)
(* Properties.                                                             *)
(***************************************************************************)
ReadFamily == {"read", "readline", "readlines"}
CachePath(h) == JoinPath(s3.dir, handles[h].key)

\* The last call was the first read-family call on h and was read()
FirstReadAll(h) ==
    /\ last.h = h /\ last.op = "read" /\ last.arg = -1
    /\ handles[h].nreads = 1

\* C1: when no cache hit occurs and the remote fetch succeeds, read() with no
\* length, called first on an open handle, returns exactly the remote
\* content, from offset 0 (lazy or eager, cache directory set or empty).
C1_BasicFetch ==
    \A h \in Handles :
        (/\ FirstReadAll(h)
         /\ handles[h].file = "Tmp" /\ handles[h].downloaded
         /\ ~handles[h].closed /\ ~handles[h].interfered)
        => (last.res = "ok" /\ last.data = remote)

C1_Witness ==
    \E h \in Handles :
        /\ FirstReadAll(h) /\ handles[h].file = "Tmp" /\ handles[h].downloaded
        /\ ~handles[h].closed /\ ~handles[h].interfered
        /\ s3.lazy /\ s3.dir # <<>> /\ Len(remote) = MaxLen
        /\ last.res = "ok" /\ last.data = remote /\ last.fetch

\* C2: after close(), every read, readline or readlines call raises the
\* closed-handle I/O error and makes no remote fetch.
C2_ClosedGuard ==
    \A h \in Handles :
        (last.h = h /\ last.op \in ReadFamily /\ handles[h].closed)
        => (last.res = "IOError_closed" /\ ~last.fetch)

\* C3: close() never raises, from any handle state, and leaves the handle
\* closed with its local file released.
C3_CloseIdempotent ==
    \A h \in Handles :
        (last.h = h /\ last.op = "close")
        => (/\ last.res = "ok"
            /\ handles[h].closed
            /\ ~IsOpenFile(FileObj(handles[h])))

\* C4: with use_cache and a cache directory, a call on a handle whose cache
\* file exists never contacts the remote store nor truncates the file, and
\* the first read() returns the local file's content verbatim.
C4_StaleCacheReuse ==
    [][\A h \in Handles :
         (/\ last'.h = h
          /\ s3.use_cache /\ s3.dir # <<>>
          /\ handles'[h].st = "open"
          /\ IsFile(World, JoinPath(s3.dir, handles'[h].key)))
         =>
         /\ ~last'.fetch /\ ~last'.trunc
         /\ (/\ last'.op = "read" /\ last'.arg = -1
             /\ handles[h].nreads = 0
             /\ ~handles[h].closed /\ ~handles[h].interfered)
            => (/\ last'.res = "ok"
                /\ last'.data = inodes[disk[JoinPath(s3.dir, handles'[h].key)]])
      ]_vars

C4_Witness ==
    /\ last.h = 2 /\ last.op = "read" /\ last.arg = -1 /\ last.res = "ok"
    /\ s3.use_cache /\ s3.dir # <<>>
    /\ handles[2].found = "stale"
    /\ last.data = AlteredContent
    /\ ~last.fetch

\* C5: with a cache directory and use_cache false, every resolution (the
\* open of an eager handle, the first read or readline of a lazy one)
\* fetches from the remote store and truncates the cache file, and the
\* first read() returns the remote content whatever was on disk.
C5_FreshByDefault ==
    [][\A h \in Handles :
         (/\ last'.h = h
          /\ ~s3.use_cache /\ s3.dir # <<>>
          /\ handles'[h].st = "open")
         =>
         /\ (last'.op = "open" /\ ~s3.lazy) => (last'.fetch /\ last'.trunc)
         /\ (last'.op \in {"read", "readline"} /\ handles[h].file = "None")
            => (last'.fetch /\ last'.trunc)
         /\ (/\ last'.op = "read" /\ last'.arg = -1
             /\ handles[h].nreads = 0
             /\ handles'[h].downloaded
             /\ ~handles[h].closed /\ ~handles[h].interfered)
            => (last'.res = "ok" /\ last'.data = remote)
      ]_vars

C5_Witness ==
    /\ last.h = 2 /\ last.op = "read" /\ last.arg = -1 /\ last.res = "ok"
    /\ ~s3.use_cache /\ s3.dir # <<>>
    /\ handles[2].found = "stale"
    /\ last.data = remote

\* C6: with a cache directory and use_cache false, after a handle's first
\* read succeeded the file <dir>/<key> exists, in its directory, and holds
\* exactly the remote content, whatever was at that path before.
C6_WriteThrough ==
    \A h \in Handles :
        (/\ last.h = h /\ last.op = "read" /\ last.res = "ok"
         /\ handles[h].nreads = 1
         /\ s3.dir # <<>> /\ ~s3.use_cache
         /\ ~handles[h].interfered)
        => (/\ IsFile(World, CachePath(h))
            /\ inodes[disk[CachePath(h)]] = remote
            /\ ParentDir(s3.dir, handles[h].key) \in dirs)

C6_Witness ==
    \E h \in Handles :
        /\ last.h = h /\ last.op = "read" /\ last.res = "ok"
        /\ handles[h].nreads = 1
        /\ s3.dir # <<>> /\ ~s3.use_cache /\ ~handles[h].interfered
        /\ handles[h].found = "stale"
        /\ Len(remote) < Len(AlteredContent)
        /\ inodes[disk[CachePath(h)]] = remote

\* C7: write and flush always fail with the unsupported-operation error and
\* change neither the handle nor the filesystem, and fetch nothing.
C7_ReadOnly ==
    [][\A h \in Handles :
         (last'.h = h /\ last'.op \in {"write", "flush"})
         => (/\ last'.res = "NotImplementedError"
             /\ ~last'.fetch /\ ~last'.trunc
             /\ handles' = handles
             /\ disk' = disk /\ inodes' = inodes /\ dirs' = dirs)
      ]_vars

\* C8: after a successful read-family call on a handle that was not closed,
\* the local file is still open, so that a further call continues from the
\* current offset.
C8_ReadyUntilClosed ==
    \A h \in Handles :
        (/\ last.h = h /\ last.op \in ReadFamily /\ last.res = "ok"
         /\ ~handles[h].closed)
        => IsOpenFile(FileObj(handles[h]))

\* C9: a lazy open fetches nothing and creates or truncates no file, and
\* the first read-family call on a lazy handle resolves it (fetching unless
\* it is a cache hit); an eager handle's read calls never fetch.
C9_LazyEager ==
    [][\A h \in Handles :
         (last'.h = h)
         =>
         /\ (s3.lazy /\ last'.op = "open") => (~last'.fetch /\ ~last'.trunc)
         /\ (/\ s3.lazy /\ last'.op \in ReadFamily
             /\ handles[h].nreads = 0)
            => (/\ handles'[h].file \in {"Tmp", "Own"} \/ last'.res = "IOError_download"
                /\ last'.fetch = ~CacheHit(World, h))
         /\ (~s3.lazy /\ last'.op \in ReadFamily) => ~last'.fetch
      ]_vars

\* C10: readlines() called first on a lazy, open handle resolves the handle
\* and returns all lines of the content.
C10_ReadlinesLazy ==
    \A h \in Handles :
        (/\ last.h = h /\ last.op = "readlines"
         /\ s3.lazy /\ handles[h].nreads = 1 /\ ~handles[h].closed)
        => (/\ last.res \in {"ok", "IOError_download"}
            /\ (last.res = "ok" /\ handles[h].file = "Tmp")
               => last.lines = Lines(remote))

\* C11: every chunk request of a handle's download asks for at most the
\* buf_size the handle was constructed with (the argument, or the default).
\* Stated for the download an eager constructor makes, whose call record
\* holds the argument.
C11_ChunkRequestSize ==
    \A h \in Handles :
        (last.h = h /\ last.op = "open" /\ last.fetch /\ last.amt > 0)
        => last.amt <= last.arg

\* The bytes of a list of chunks, in order
RECURSIVE Flatten(_)
Flatten(chunks) ==
    IF chunks = <<>> THEN <<>> ELSE Head(chunks) \o Flatten(Tail(chunks))

\* The world a download taken step by step started from
LoopStartWorld ==
    [dirs |-> {<<>>}, disk |-> [p \in Paths |-> 0],
     inodes |-> [i \in 1..NumInodes |-> <<>>],
     handles |-> [handles EXCEPT ![LoopHandle].tmp = NoneFile]]

\* C12: for every remote content and every positive buffer size, the
\* download loop ends at the first empty read, which is completion and not
\* an error, after at most one read per byte and one more; the chunks it
\* wrote are non-empty, no longer than the buffer size, and their
\* concatenation, which is the content of the local file, is the remote
\* content.  The loop fails only if the store raised.  The atomic Download
\* computes the same world and the same outcome.
C12_LoopCompletes ==
    /\ dl.reads <= Len(remote) + 1
    /\ dl.pc = "IOError_download" => dl.fault # NoFault
    /\ dl.pc = "done" =>
          /\ dl.data = <<>> /\ dl.obj = <<>>
          /\ \A i \in 1..Len(dl.chunks) :
                 Len(dl.chunks[i]) \in 1..handles[LoopHandle].buf_size
          /\ Flatten(dl.chunks) = remote
          /\ inodes[handles[LoopHandle].tmp.ino] = remote
          /\ dl.reads = Len(dl.chunks) + 1
    /\ dl.pc \in {"done", "IOError_download"} =>
          \E d \in {Download(LoopStartWorld, LoopHandle, dl.fault)} :
              /\ d.W = World
              /\ (d.exc = "none") = (dl.pc = "done")
              /\ d.exc \in {"none", dl.pc}

C12_Witness ==
    /\ dl.pc = "done"
    /\ Len(remote) = MaxLen
    /\ Len(dl.chunks) = MaxLen
    /\ handles[LoopHandle].buf_size < Len(remote)
    /\ s3.dir # <<>>
    /\ inodes[disk[JoinPath(s3.dir, handles[LoopHandle].key)]] = remote

\* C13: a call during which the remote store raised ClientError, in
\* get_object or in a read of the stream, fails with the I/O error of a
\* failed download (and only such a call does), which is not the I/O error
\* of a closed cache file; the download is not tried again within the call,
\* so the handle is left unresolved.
C13_FetchError ==
    \A h \in Handles :
        (last.h = h) =>
            /\ last.raised = (last.res = "IOError_download")
            /\ last.raised =>
                  /\ last.fetch
                  /\ last.res # "IOError_closed"
                  /\ ~handles[h].downloaded
                  /\ handles[h].file = "None"

C13_Witness ==
    \E h \in Handles :
        /\ last.h = h /\ last.op = "readline" /\ last.raised
        /\ last.res = "IOError_download"
        /\ Len(remote) = MaxLen
        /\ handles[h].tmp.pos = MaxLen

\* C14: constructing a handle with a mode other than 'rb' fails with the
\* unsupported-mode error before any side effect, lazy or eager: the remote
\* store is not contacted, and no directory or file is created and no file
\* truncated.
C14_ModeRejected ==
    [][\A h \in Handles :
         (last'.h = h /\ last'.op = "open" /\ last'.mode # "rb")
         => (/\ last'.res = "NotImplementedError"
             /\ ~last'.fetch /\ ~last'.trunc /\ ~last'.raised
             /\ handles'[h].st = "failed"
             /\ handles'[h].tmp = NoneFile /\ handles'[h].own = NoneFile
             /\ dirs' = dirs /\ disk' = disk
             /\ \A p \in Paths :
                    disk[p] # 0 => inodes'[disk[p]] = inodes[disk[p]])
      ]_vars

C14_Witness ==
    \E h \in Handles :
        /\ last.h = h /\ last.op = "open" /\ last.mode # "rb"
        /\ last.res = "NotImplementedError"
        /\ ~s3.lazy /\ s3.dir # <<>> /\ ~s3.use_cache
        /\ IsFile(World, JoinPath(s3.dir, handles[h].key))
        /\ inodes[disk[JoinPath(s3.dir, handles[h].key)]] # <<>>

\* C15: once a handle's downloaded flag is set, no call on it (read,
\* readline, readlines, write, flush or close) contacts the remote store or
\* creates or truncates a file, and the flag stays set: a handle completes
\* at most one transfer.
C15_DownloadOnce ==
    [][\A h \in Handles :
         (handles[h].downloaded /\ last'.h = h)
         => (/\ ~last'.fetch /\ ~last'.trunc /\ ~last'.raised
             /\ last'.amt = 0
             /\ handles'[h].downloaded)
      ]_vars

C15_Witness ==
    \E h \in Handles :
        /\ last.h = h /\ last.op = "readline" /\ last.res = "ok"
        /\ handles[h].nreads = MaxCalls
        /\ handles[h].downloaded /\ handles[h].file = "Tmp"
        /\ s3.lazy /\ s3.dir # <<>> /\ ~s3.use_cache
        /\ ~last.fetch /\ ~last.trunc
        /\ handles[h].tmp.pos > 0

\* C16: the downloaded flag of a handle is set only if a transfer completed
\* for it; a handle resolved by a cache hit, eager or lazy, has the flag
\* unset.
C16_DownloadedIffTransfer ==
    \A h \in Handles :
        /\ handles[h].downloaded => handles[h].tmp # NoneFile
        /\ handles[h].file = "Own" => ~handles[h].downloaded

\* A download made by a call on the lazy, open handle h has failed, and h
\* was not resolved since
FailedDownload(h) ==
    /\ s3.lazy /\ handles[h].st = "open" /\ ~handles[h].closed
    /\ handles[h].file = "None" /\ handles[h].tmp # NoneFile

\* C17 (as stated): a read-family call on a lazy, open handle that fails
\* with the remote-fetch error leaves downloaded and closed false, and a
\* following read(), if the store raises nothing, downloads again from the
\* beginning and returns the full remote content.
C17_RetryRefetches ==
    [][\A h \in Handles :
         /\ (/\ last'.h = h /\ last'.op \in ReadFamily /\ s3.lazy
             /\ last'.res = "IOError_download" /\ ~handles[h].closed)
            => (/\ ~handles'[h].downloaded /\ ~handles'[h].closed
                /\ handles'[h].st = "open")
         /\ (/\ FailedDownload(h)
             /\ last'.h = h /\ last'.op = "read" /\ last'.arg = -1
             /\ ~last'.raised)
            => (/\ last'.fetch
                /\ last'.res = "ok" /\ last'.data = remote)
      ]_vars

\* C17 (amended): as above, unless use_cache is set and a file exists at the
\* cache path, as the failed download leaves one when a cache directory is
\* set: the following read() is then a cache hit, which returns that file's
\* content without contacting the remote store.
C17_RetryAfterFailure ==
    [][\A h \in Handles :
         /\ (/\ last'.h = h /\ last'.op \in ReadFamily /\ s3.lazy
             /\ last'.res = "IOError_download" /\ ~handles[h].closed)
            => (/\ ~handles'[h].downloaded /\ ~handles'[h].closed
                /\ handles'[h].st = "open")
         /\ (/\ FailedDownload(h)
             /\ last'.h = h /\ last'.op = "read" /\ last'.arg = -1
             /\ ~last'.raised)
            => IF s3.use_cache /\ IsFile(World, CachePath(h))
               THEN /\ ~last'.fetch /\ ~last'.trunc
                    /\ last'.res = "ok"
                    /\ last'.data = inodes[disk[CachePath(h)]]
               ELSE /\ last'.fetch
                    /\ last'.res = "ok" /\ last'.data = remote
                    /\ handles'[h].downloaded
      ]_vars

C17_Witness ==
    \E h \in Handles :
        /\ last.h = h /\ last.op = "read" /\ last.arg = -1
        /\ handles[h].nreads = MaxCalls
        /\ s3.lazy /\ s3.dir # <<>> /\ ~s3.use_cache
        /\ last.fetch /\ last.res = "ok"
        /\ last.data = remote /\ Len(remote) = MaxLen

IsPrefix(a, b) == Len(a) <= Len(b) /\ Take(b, Len(a)) = a

\* C18: with a cache directory, a call that contacts the remote store has
\* created or truncated the file <dir>/<key> first, and a failed download
\* cleans nothing up: after it the file exists, in its directory, and holds
\* only the chunks written before the failure (nothing when the store
\* raised before the first chunk), so that what was cached there before is
\* gone; and an open with use_cache over an existing file, such as this one,
\* is a cache hit that contacts nothing and leaves the file as it is.
C18_PartialFileLeft ==
    [][\A h \in Handles :
         (last'.h = h /\ s3.dir # <<>>)
         =>
         /\ last'.fetch => last'.trunc
         /\ last'.raised =>
               /\ ParentDir(s3.dir, handles'[h].key) \in dirs'
               /\ disk'[JoinPath(s3.dir, handles'[h].key)] # 0
               /\ \E c \in {inodes'[disk'[JoinPath(s3.dir, handles'[h].key)]]} :
                      /\ IsPrefix(c, remote)
                      /\ Len(c) \in {0, Min(Len(remote), last'.amt)}
         /\ (/\ last'.op = "open" /\ last'.mode = "rb" /\ s3.use_cache
             /\ IsFile(World, JoinPath(s3.dir, handles'[h].key)))
            => (/\ last'.res = "ok" /\ ~last'.fetch /\ ~last'.trunc
                /\ disk' = disk
                /\ inodes'[disk[JoinPath(s3.dir, handles'[h].key)]]
                       = inodes[disk[JoinPath(s3.dir, handles'[h].key)]]
                /\ ~s3.lazy =>
                      /\ handles'[h].file = "Own"
                      /\ handles'[h].own.ino = disk[JoinPath(s3.dir, handles'[h].key)])
      ]_vars

C18_Witness ==
    \E h \in Handles :
        /\ last.h = h /\ last.op = "open" /\ last.res = "ok" /\ ~last.fetch
        /\ s3.use_cache /\ s3.dir # <<>> /\ ~s3.lazy
        /\ handles[h].file = "Own" /\ handles[h].found = "stale"
        /\ remote # <<>>
        /\ IsPrefix(inodes[disk[CachePath(h)]], remote)

\* C19: with an empty cache directory, every resolution (the open of an
\* eager handle, the first read or readline of a lazy one) fetches from the
\* remote store, use_cache or not and whatever files exist locally, and no
\* call creates or truncates a file that has a path.
C19_EphemeralAlwaysFetches ==
    [][\A h \in Handles :
         (last'.h = h /\ s3.dir = <<>> /\ last'.mode = "rb")
         =>
         /\ (last'.op = "open" /\ ~s3.lazy) => last'.fetch
         /\ (last'.op \in {"read", "readline"} /\ handles[h].file = "None")
            => last'.fetch
         /\ ~last'.trunc /\ disk' = disk
      ]_vars

\* A download into the cache file has failed and was not made again: an
\* eager open failed, or a lazy handle is left unresolved by a failed read
DownloadLeftFailed ==
    \E g \in Handles :
        \/ handles[g].st = "failed"
        \/ handles[g].file = "None" /\ handles[g].tmp # NoneFile

\* C20: two handles of one downloader on the same key, held together, with
\* a cache directory, no cache reuse and an unchanging remote content: under
\* every interleaving of their open, read and close calls, the first read()
\* of a handle that is not closed returns exactly the remote content, even
\* when the other handle's download truncated and rewrote the cache file
\* meanwhile (no download being left failed).
C20_TwoHandlesSameKey ==
    \A h \in Handles :
        (/\ FirstReadAll(h)
         /\ ~handles[h].closed
         /\ ~DownloadLeftFailed)
        => (last.res = "ok" /\ last.data = remote)

C20_Witness ==
    \E h, g \in Handles :
        /\ h < g
        /\ FirstReadAll(h) /\ ~s3.lazy
        /\ handles[g].st = "open" /\ handles[g].downloaded
        /\ handles[g].nreads = 0
        /\ handles[g].tmp.ino = disk[CachePath(h)]
        /\ handles[h].file = "Tmp"
        /\ IsOpenFile(handles[g].tmp)
        /\ Len(remote) = MaxLen
        /\ last.res = "ok" /\ last.data = remote

====
